---- MODULE Spec2Model ----
(***************************************************************************)
(* A model of src/log.js: the Log class of ipfs-log, an append-only,       *)
(* content-addressed log that replicas extend with append and merge with   *)
(* join.                                                                   *)
(*                                                                         *)
(* Representation.  A hash is the position of an entry's content in the    *)
(* block store (a positive integer).  A JavaScript object used as a map    *)
(* is a function whose domain is its set of keys.  _headsIndex is assigned *)
(* an Array by a bounded join (line 410); the keys of an Array are its     *)
(* indices "0", "1", ..., written here as 0, -1, -2, ... so that they      *)
(* never collide with a hash.  Entry.next is kept as a set of keys: the    *)
(* order of Object.keys is not modelled, and keys are visited in the order *)
(* JavaScript prescribes for integer-like keys and ascending for hashes.   *)
(* Every log holds its own copies of the entries (replicas do not share    *)
(* memory).                                                                *)
(***************************************************************************)
EXTENDS Integers, Sequences, FiniteSets, TLC

\* ------------------------------------------------------------------ bounds
\* The block store holds at most MaxEntries entries.
MaxEntries == 3
\* At most MaxFaults faults are injected: appends that fail and entry copies
\* modified after signing.
MaxFaults == 1
\* The block store of the specifications that go one entry deeper.
MaxEntriesDeep == 4
\* append is called with pointerCount in 1..MaxPointerCount.
MaxPointerCount == 2
\* join is called with size -1 (no bound) or a size in 1..MaxSize.
MaxSize == 1

\* ----------------------------------------------------- replicas and inputs
\* The replicas of the scenario and the constructor arguments of each.
Logs == {1, 2, 3}
\* The two writers.
Pair == {1, 2}
Keys == {"A", "B", "C"}
\* String comparison of the public keys used as clock ids.
KeyRank(k) == CASE k = "A" -> 1 [] k = "B" -> 2 [] OTHER -> 3
\* identity.publicKey of each replica.
IdentityOf(l) == CASE l = 1 -> "A" [] l = 2 -> "B" [] OTHER -> "C"
\* The write list of each replica's access controller.
AccessOf(l) == CASE l = 1 -> {"A"} [] l = 2 -> Keys [] OTHER -> {"A", "B"}
\* logId of each replica.
IdOf(l) == "X"
Payloads == {"p"}
PointerCounts == 1..MaxPointerCount
Sizes == {-1} \cup (1..MaxSize)

VARIABLES
  store,     \* the block store: the sequence of entry contents put so far
  logs,      \* logs[l]: the fields of replica l's Log instance
  appended,  \* appended[l]: the greatest clock.time of the entries l appended
  faults,    \* the number of faults injected so far
  lastOp,    \* the operation that produced the current state and its outcome
  pending    \* pending[l]: the calls of log l that are suspended at an await

vars == <<store, logs, appended, faults, lastOp, pending>>

\* ----------------------------------------------------------------- helpers
\* Math.max
Max(a, b) == IF a > b THEN a ELSE b

Reverse(s) == [i \in 1..Len(s) |-> s[Len(s) + 1 - i]]

Range(s) == {s[i] : i \in DOMAIN s}

\* The elements of a set of integers in ascending order.
RECURSIVE Ascending(_)
Ascending(S) ==
  IF S = {} THEN <<>>
  ELSE LET m == CHOOSE x \in S : \A y \in S : x <= y
       IN <<m>> \o Ascending(S \ {m})

\* Array.prototype.slice(start)
Slice(s, start) ==
  LET from == IF start < 0 THEN Max(Len(s) + start, 0)
              ELSE IF start > Len(s) THEN Len(s) ELSE start
  IN SubSeq(s, from + 1, Len(s))

\* The key of index i of an Array.
IndexKey(i) == 0 - i

\* Object.keys: integer-like keys first, ascending, then the string keys.
ObjectKeys(m) ==
  Reverse(Ascending({k \in DOMAIN m : k <= 0})) \o Ascending({k \in DOMAIN m : k > 0})

\* Object.values
ObjectValues(m) ==
  LET ks == ObjectKeys(m) IN [i \in 1..Len(ks) |-> m[ks[i]]]

\* Object.assign({}, a, b)
ObjectAssign(a, b) ==
  [k \in (DOMAIN a) \cup (DOMAIN b) |-> IF k \in DOMAIN b THEN b[k] ELSE a[k]]

\* An Array seen as an object: its indices are its keys.
ArrayObject(s) == [k \in {IndexKey(i - 1) : i \in 1..Len(s)} |-> s[1 - k]]

\* entries.reduce(uniqueEntriesReducer, {}): the last entry of each hash wins.
uniqueEntriesReducer(entries) ==
  [h \in {entries[i].hash : i \in DOMAIN entries} |->
     entries[CHOOSE i \in DOMAIN entries :
               /\ entries[i].hash = h
               /\ \A j \in DOMAIN entries : entries[j].hash = h => j <= i]]

\* entries.reduce(maxClockTimeReducer, 0)
RECURSIVE maxClockTimeReducer(_)
maxClockTimeReducer(entries) ==
  IF entries = <<>> THEN 0
  ELSE Max(maxClockTimeReducer(Tail(entries)), Head(entries).clock.time)

\* ------------------------------------------------- collaborators (not in src)
\* LastWriteWins of ./log-sorting: clock time, then clock id, then hash;
\* negative when a sorts before b.
LastWriteWins(a, b) ==
  IF a.clock.time # b.clock.time THEN a.clock.time - b.clock.time
  ELSE IF a.clock.id # b.clock.id THEN KeyRank(a.clock.id) - KeyRank(b.clock.id)
  ELSE a.hash - b.hash

\* The signature an identity produces over an entry's data.
Sign(identity, data) == [key |-> identity, data |-> data]

\* Entry.verify: the signature matches the entry as it is now.
Verify(entry) == entry.sig = Sign(entry.identity, entry.payload)

\* The access controller's canAppend: the signer is on the write list.
canAppend(access, entry) == entry.identity \in access

\* The block store's put: the content address of an object.
HashOf(st, content) ==
  IF \E i \in DOMAIN st : st[i] = content
  THEN CHOOSE i \in DOMAIN st : st[i] = content
  ELSE Len(st) + 1

Put(st, content) ==
  IF \E i \in DOMAIN st : st[i] = content THEN st ELSE Append(st, content)

\* Entry.create: assemble, sign, store, and return the entry with its hash.
EntryCreate(st, identity, id, data, nexts, clock) ==
  LET content == [id |-> id, payload |-> data, next |-> nexts,
                  clock |-> clock, identity |-> identity]
  IN [hash |-> HashOf(st, content), id |-> id, payload |-> data, next |-> nexts,
      clock |-> clock, identity |-> identity, sig |-> Sign(identity, data)]

\* ------------------------------------------------------------------ sorting
\* Array.prototype.sort(LastWriteWins): a stable ascending sort.
RECURSIVE InsertSorted(_, _)
InsertSorted(s, e) ==
  IF s = <<>> THEN <<e>>
  ELSE IF LastWriteWins(s[Len(s)], e) <= 0 THEN Append(s, e)
  ELSE Append(InsertSorted(SubSeq(s, 1, Len(s) - 1), e), s[Len(s)])

RECURSIVE SortLastWriteWins(_)
SortLastWriteWins(s) ==
  IF s = <<>> THEN <<>>
  ELSE InsertSorted(SortLastWriteWins(SubSeq(s, 1, Len(s) - 1)), s[Len(s)])

\* ------------------------------------------------------------- Log getters
\* get heads
heads(this) == Reverse(SortLastWriteWins(ObjectValues(this.headsIndex)))

\* has
has(this, hash) == hash \in DOMAIN this.entryIndex

\* result[entry.hash] = entry on an object whose values are read in key order.
SetResult(result, entry) ==
  IF \E i \in DOMAIN result : result[i].hash = entry.hash
  THEN [i \in DOMAIN result |-> IF result[i].hash = entry.hash THEN entry ELSE result[i]]
  ELSE Append(result, entry)

\* addToStack without the sort of lines 270-271: each child is put in front
\* of the stack and stays there.
RECURSIVE addToStackUnsorted(_, _)
addToStackUnsorted(stack, children) ==
  IF children = <<>> THEN stack
  ELSE addToStackUnsorted(<<Head(children)>> \o stack, Tail(children))

\* children.forEach(addToStack), for children not yet traversed: each is put
\* in front of the stack, which is sorted again and reversed.
RECURSIVE addToStack(_, _)
addToStack(stack, children) ==
  IF children = <<>> THEN stack
  ELSE addToStack(Reverse(SortLastWriteWins(<<Head(children)>> \o stack)),
                  Tail(children))

\* The while loop of traverse.
RECURSIVE traverseLoop(_, _, _, _, _, _)
traverseLoop(this, stack, traversed, result, count, amount) ==
  IF Len(stack) > 0 /\ (amount = -1 \/ count < amount)
  THEN LET entry == Head(stack)
           found == Ascending({h \in entry.next : has(this, h) /\ h \notin traversed})
           children == [i \in 1..Len(found) |-> this.entryIndex[found[i]]]
       IN traverseLoop(this,
                       addToStack(Tail(stack), children),
                       traversed \cup Range(found),
                       SetResult(result, entry),
                       count + 1,
                       amount)
  ELSE result

\* traverse(rootEntries, amount): the entries in the order they were recorded.
traverse(this, rootEntries, amount) ==
  traverseLoop(this, Reverse(SortLastWriteWins(rootEntries)), {}, <<>>, 0, amount)

\* get values
values(this) == Reverse(traverse(this, heads(this), -1))

\* -------------------------------------------------------- static helpers
\* entries.sort(compareIds), where compareIds returns a boolean: the order is
\* implementation-defined.  An insertion sort orders by clock id (stable); a
\* merge sort that only looks for negative results leaves the array as it is.
RECURSIVE InsertByClockId(_, _)
InsertByClockId(s, e) ==
  IF s = <<>> THEN <<e>>
  ELSE IF KeyRank(s[Len(s)].clock.id) > KeyRank(e.clock.id)
       THEN Append(InsertByClockId(SubSeq(s, 1, Len(s) - 1), e), s[Len(s)])
       ELSE Append(s, e)

RECURSIVE SortCompareIds(_, _)
SortCompareIds(s, sortById) ==
  IF ~sortById \/ s = <<>> THEN s
  ELSE InsertByClockId(SortCompareIds(SubSeq(s, 1, Len(s) - 1), sortById), s[Len(s)])

\* Log.findHeads: the entries no entry of the input references.
findHeads(entries, sortById) ==
  LET items == UNION {entries[i].next : i \in DOMAIN entries}
      exists(e) == e.hash \notin items
  IN SortCompareIds(SelectSeq(entries, exists), sortById)

\* entry.next.reverse().forEach(addToResult) of Log.findTailHashes: each hash
\* of nexts that is not in hashes is put in front of res.
RECURSIVE addToResult(_, _, _)
addToResult(res, nexts, hashes) ==
  IF nexts = <<>> THEN res
  ELSE LET e == Head(nexts)
       IN addToResult(IF e \notin hashes THEN <<e>> \o res ELSE res,
                      Tail(nexts), hashes)

\* entries.reduce(reduceTailHashes, res) of Log.findTailHashes.
RECURSIVE reduceTailHashes(_, _, _)
reduceTailHashes(res, entries, hashes) ==
  IF entries = <<>> THEN res
  ELSE reduceTailHashes(addToResult(res, Reverse(Ascending(Head(entries).next)),
                                    hashes),
                        Tail(entries), hashes)

\* Log.findTailHashes(entries): the hashes that entries reference and that are
\* not hashes of entries, as a list.
findTailHashes(entries) ==
  reduceTailHashes(<<>>, entries, {entries[i].hash : i \in DOMAIN entries})

\* The while loop of Log.difference.
RECURSIVE differenceLoop(_, _, _, _, _)
differenceLoop(a, b, stack, traversed, res) ==
  IF Len(stack) > 0
  THEN LET hash == Head(stack)
       IN IF has(a, hash) /\ ~has(b, hash) /\ a.entryIndex[hash].id = b.id
          THEN LET entry == a.entryIndex[hash]
                   seen == traversed \cup {entry.hash}
                   pushed == {n \in entry.next : n \notin seen /\ ~has(b, n)}
               IN differenceLoop(a, b, Tail(stack) \o Ascending(pushed),
                                 seen \cup pushed, SetResult(res, entry))
          ELSE differenceLoop(a, b, Tail(stack), traversed, res)
  ELSE res

\* Log.difference(a, b): the entries of res in the order they were recorded.
difference(a, b) == differenceLoop(a, b, ObjectKeys(a.headsIndex), {}, <<>>)

\* entries.forEach(e => e.next.forEach(a => nextsIndex[a] = e.hash))
addToNextsIndex(nextsIndex, entries) ==
  LET refs == UNION {entries[i].next : i \in DOMAIN entries}
      last(a) == CHOOSE i \in DOMAIN entries :
                   /\ a \in entries[i].next
                   /\ \A j \in DOMAIN entries : a \in entries[j].next => j <= i
  IN [a \in (DOMAIN nextsIndex) \cup refs |->
        IF a \in refs THEN entries[last(a)].hash ELSE nextsIndex[a]]

\* ------------------------------------------------------------ constructor
\* new Log(ipfs, access, identity, logId, entries, undefined, clock); clockTime
\* is clock.time, or 0 when no clock is given.
constructor(access, identity, logId, entries, clockTime, sortById) ==
  LET headsIndex == uniqueEntriesReducer(findHeads(entries, sortById))
  IN [id |-> logId,
      access |-> access,
      identity |-> identity,
      entryIndex |-> uniqueEntriesReducer(entries),
      headsIndex |-> headsIndex,
      nextsIndex |-> addToNextsIndex(<<>>, entries),
      length |-> Len(entries),
      clock |-> [id |-> identity,
                 time |-> Max(clockTime, maxClockTimeReducer(ObjectValues(headsIndex)))]]

\* ------------------------------------------------------------------ append
\* appendClock without the tick: the clock moves to the latest time seen.
appendClockNoTick(this) ==
  [id |-> this.clock.id,
   time |-> Max(this.clock.time, maxClockTimeReducer(heads(this)))]

\* Lines 310-312: the new clock.
appendClock(this) ==
  [id |-> this.clock.id,
   time |-> Max(this.clock.time, maxClockTimeReducer(heads(this))) + 1]

\* Lines 315-316: the hashes the new entry points to.
appendNexts(this, pointerCount) ==
  LET references == traverse(this, heads(this), Max(pointerCount, Len(heads(this))))
  IN (DOMAIN this.headsIndex) \cup {references[i].hash : i \in DOMAIN references}

\* appendCommit without line 336: the new entry joins the heads there were.
appendCommitKeepHeads(this, entry) ==
  [this EXCEPT
     !.entryIndex = ObjectAssign(this.entryIndex, uniqueEntriesReducer(<<entry>>)),
     !.nextsIndex = addToNextsIndex(this.nextsIndex, <<entry>>),
     !.headsIndex = ObjectAssign(this.headsIndex, uniqueEntriesReducer(<<entry>>)),
     !.length = this.length + 1]

\* Lines 334-339: the entry is put into the indices.
appendCommit(this, entry) ==
  [this EXCEPT
     !.entryIndex = ObjectAssign(this.entryIndex, uniqueEntriesReducer(<<entry>>)),
     !.nextsIndex = addToNextsIndex(this.nextsIndex, <<entry>>),
     !.headsIndex = uniqueEntriesReducer(<<entry>>),
     !.length = this.length + 1]

\* The content an entry was stored under.
ContentOf(entry) ==
  [id |-> entry.id, payload |-> entry.payload, next |-> entry.next,
   clock |-> entry.clock, identity |-> entry.identity]

\* append(data, pointerCount).  created tells whether Entry.create succeeded.
\* The result holds the log and the block store afterwards, whether the call
\* returned (ok) or threw, and the entry built.
append(this, st, data, pointerCount, created) ==
  LET ticked == [this EXCEPT !.clock = appendClock(this)]
      nexts == appendNexts(ticked, pointerCount)
      entry == EntryCreate(st, ticked.identity, ticked.id, data, nexts, ticked.clock)
  IN IF ~created
     THEN [log |-> ticked, store |-> st, ok |-> FALSE, entry |-> entry]
     ELSE IF ~canAppend(ticked.access, entry)
     THEN [log |-> ticked, store |-> Put(st, ContentOf(entry)), ok |-> FALSE,
           entry |-> entry]
     ELSE [log |-> appendCommit(ticked, entry), store |-> Put(st, ContentOf(entry)),
           ok |-> TRUE, entry |-> entry]

\* -------------------------------------------------------------------- join
\* Lines 367-381: every new entry is permitted and every signature verifies.
joinGates(this, newItems) ==
  /\ \A i \in DOMAIN newItems : canAppend(this.access, newItems[i])
  /\ \A i \in DOMAIN newItems : Verify(newItems[i])

\* Lines 384-392: length, nextsIndex and entryIndex take the new entries.
joinIntegrate(this, newItems) ==
  [this EXCEPT
     !.length = this.length
                + Cardinality({i \in DOMAIN newItems : ~has(this, newItems[i].hash)}),
     !.nextsIndex = addToNextsIndex(this.nextsIndex, newItems),
     !.entryIndex = ObjectAssign(this.entryIndex, uniqueEntriesReducer(newItems))]

\* joinHeads without the heads of the other log: the merged heads are chosen
\* among this log's heads only.
joinHeadsOwn(this, other, newItems, sortById) ==
  LET notInCurrentNexts(e) == e.hash \notin DOMAIN this.nextsIndex
  IN [this EXCEPT !.headsIndex =
        uniqueEntriesReducer(SelectSeq(findHeads(ObjectValues(this.headsIndex),
                                                 sortById), notInCurrentNexts))]

\* Lines 395-403: the heads of both logs that nothing known references.  this
\* is the log after joinIntegrate.
joinHeads(this, other, newItems, sortById) ==
  LET nextsFromNewItems == UNION {newItems[i].next : i \in DOMAIN newItems}
      notReferencedByNewItems(e) == e.hash \notin nextsFromNewItems
      notInCurrentNexts(e) == e.hash \notin DOMAIN this.nextsIndex
      candidates == findHeads(ObjectValues(ObjectAssign(this.headsIndex,
                                                        other.headsIndex)), sortById)
  IN [this EXCEPT !.headsIndex =
        uniqueEntriesReducer(SelectSeq(SelectSeq(candidates, notReferencedByNewItems),
                                       notInCurrentNexts))]

\* joinSlice that slices whatever the size: for size -1 that is slice(1), all
\* but the first of the values.
joinSliceAlways(this, size, sortById) ==
  LET tmp == Slice(values(this), 0 - size)
  IN [this EXCEPT
        !.entryIndex = uniqueEntriesReducer(tmp),
        !.headsIndex = ArrayObject(findHeads(tmp, sortById)),
        !.length = Cardinality(DOMAIN uniqueEntriesReducer(tmp))]

\* joinSlice without line 411: the length is left as it was.
joinSliceStaleLength(this, size, sortById) ==
  IF size > -1
  THEN LET tmp == Slice(values(this), 0 - size)
       IN [this EXCEPT
             !.entryIndex = uniqueEntriesReducer(tmp),
             !.headsIndex = ArrayObject(findHeads(tmp, sortById))]
  ELSE this

\* Lines 406-412: slice to the requested size.
joinSlice(this, size, sortById) ==
  IF size > -1
  THEN LET tmp == Slice(values(this), 0 - size)
       IN [this EXCEPT
             !.entryIndex = uniqueEntriesReducer(tmp),
             !.headsIndex = ArrayObject(findHeads(tmp, sortById)),
             !.length = Cardinality(DOMAIN uniqueEntriesReducer(tmp))]
  ELSE this

\* joinClock that ticks: the clock moves one past the latest head.
joinClockTick(this) ==
  [this EXCEPT !.clock =
     [id |-> this.clock.id,
      time |-> Max(this.clock.time,
                   maxClockTimeReducer(ObjectValues(this.headsIndex))) + 1]]

\* joinClock without lines 415-416: the clock is left as it was.
joinClockKeep(this) == this

\* Lines 415-416: the clock follows the heads.
joinClock(this) ==
  [this EXCEPT !.clock =
     [id |-> this.clock.id,
      time |-> Max(this.clock.time,
                   maxClockTimeReducer(ObjectValues(this.headsIndex)))]]

\* join without line 359: logs with different ids are merged like any other.
joinAnyId(this, other, size, sortById) ==
  LET newItems == difference(other, this)
  IN IF ~joinGates(this, newItems) THEN [log |-> this, ok |-> FALSE]
     ELSE [log |-> joinClock(joinSlice(joinHeads(joinIntegrate(this, newItems),
                                                 other, newItems, sortById),
                                       size, sortById)),
           ok |-> TRUE]

\* join with the gates after the integration: the new entries are in the
\* indices when a gate throws.
joinIntegrateFirst(this, other, size, sortById) ==
  IF this.id # other.id THEN [log |-> this, ok |-> TRUE]
  ELSE LET newItems == difference(other, this)
           integrated == joinIntegrate(this, newItems)
       IN IF ~joinGates(this, newItems) THEN [log |-> integrated, ok |-> FALSE]
          ELSE [log |-> joinClock(joinSlice(joinHeads(integrated, other, newItems,
                                                      sortById),
                                            size, sortById)),
                ok |-> TRUE]

\* join(log, size).  The result holds the log afterwards and whether the call
\* returned (ok) or threw.
join(this, other, size, sortById) ==
  IF this.id # other.id THEN [log |-> this, ok |-> TRUE]
  ELSE LET newItems == difference(other, this)
       IN IF ~joinGates(this, newItems) THEN [log |-> this, ok |-> FALSE]
          ELSE [log |-> joinClock(joinSlice(joinHeads(joinIntegrate(this, newItems),
                                                      other, newItems, sortById),
                                            size, sortById)),
                ok |-> TRUE]

\* ----------------------------------------------------------------- actions
\* The log new Log(ipfs, access, identity, logId) of replica l.
NewLog(l) == constructor(AccessOf(l), IdentityOf(l), IdOf(l), <<>>, 0, FALSE)

Init ==
  /\ store = <<>>
  /\ logs = [l \in Logs |-> NewLog(l)]
  /\ appended = [l \in Logs |-> 0]
  /\ faults = 0
  /\ lastOp = "new"
  /\ pending = [l \in Logs |-> {}]

\* log l: await log.append(data, pointerCount), with a block store of at most
\* cap entries.
DoAppend(l, data, pointerCount, created, cap) ==
  LET r == append(logs[l], store, data, pointerCount, created)
  IN /\ Len(r.store) <= cap
     /\ ~r.ok => faults < MaxFaults
     /\ store' = r.store
     /\ logs' = [logs EXCEPT ![l] = r.log]
     /\ appended' = IF r.ok THEN [appended EXCEPT ![l] = Max(@, r.entry.clock.time)]
                    ELSE appended
     /\ faults' = IF r.ok THEN faults ELSE faults + 1
     /\ lastOp' = IF r.ok THEN "append" ELSE "appendFailed"
     /\ UNCHANGED pending

\* log l: await log.join(logs[o], size)
DoJoin(l, o, size, sortById) ==
  LET r == join(logs[l], logs[o], size, sortById)
  IN /\ l # o
     /\ logs' = [logs EXCEPT ![l] = r.log]
     /\ lastOp' = IF r.ok THEN "join" ELSE "joinFailed"
     /\ UNCHANGED <<store, appended, faults, pending>>

\* An entry copy held by log l is modified after it was signed.
DoTamper(l, h) ==
  LET tamper(e) == IF e.hash = h THEN [e EXCEPT !.payload = "tampered"] ELSE e
  IN /\ has(logs[l], h)
     /\ Verify(logs[l].entryIndex[h])
     /\ faults < MaxFaults
     /\ logs' = [logs EXCEPT
                   ![l].entryIndex = [k \in DOMAIN @ |-> tamper(@[k])],
                   ![l].headsIndex = [k \in DOMAIN @ |-> tamper(@[k])]]
     /\ faults' = faults + 1
     /\ lastOp' = "tamper"
     /\ UNCHANGED <<store, appended, pending>>

\* Replica l starts from a new Log built from the last size values of log o
\* (all of them when size is -1), with or without o's clock, as the loaders
\* fromEntry, fromJSON and fromMultihash do.
DoConstruct(l, o, size, withClock, sortById) ==
  LET all == values(logs[o])
      entries == IF size = -1 THEN all
                 ELSE SubSeq(all, Max(Len(all) - size, 0) + 1, Len(all))
  IN /\ l # o
     /\ logs[l] = NewLog(l)
     /\ logs[o].id = IdOf(l)
     /\ entries # <<>>
     /\ logs' = [logs EXCEPT ![l] =
                   constructor(AccessOf(l), IdentityOf(l), IdOf(l), entries,
                               IF withClock THEN logs[o].clock.time ELSE 0, sortById)]
     /\ lastOp' = "construct"
     /\ UNCHANGED <<store, appended, faults, pending>>

\* Two replicas; every operation.
Next ==
  \/ \E l \in Pair, data \in Payloads, pc \in PointerCounts, created \in BOOLEAN :
       DoAppend(l, data, pc, created, MaxEntries)
  \/ \E l \in Pair, o \in Pair, size \in Sizes, sortById \in BOOLEAN :
       DoJoin(l, o, size, sortById)
  \/ \E l \in Pair, h \in 1..MaxEntries : DoTamper(l, h)
  \/ \E l \in Pair, o \in Pair, size \in Sizes, withClock \in BOOLEAN,
        sortById \in BOOLEAN :
       DoConstruct(l, o, size, withClock, sortById)

Spec == Init /\ [][Next]_vars

\* Two replicas and one more entry; appends that succeed and joins that keep
\* every entry.
NextDeep ==
  \/ \E l \in Pair, data \in Payloads, pc \in PointerCounts :
       DoAppend(l, data, pc, TRUE, MaxEntriesDeep)
  \/ \E l \in Pair, o \in Pair, size \in {-1, 0}, sortById \in BOOLEAN :
       DoJoin(l, o, size, sortById)

SpecDeep == Init /\ [][NextDeep]_vars

\* Three replicas; appends that succeed and unbounded joins.
NextUnbounded ==
  \/ \E l \in Logs, data \in Payloads, pc \in PointerCounts :
       DoAppend(l, data, pc, TRUE, MaxEntriesDeep)
  \/ \E l \in Logs, o \in Logs, sortById \in BOOLEAN :
       DoJoin(l, o, -1, sortById)

SpecUnbounded == Init /\ [][NextUnbounded]_vars

\* ------------------------------------------- append, one step at a time
\* At most MaxPending calls of append are suspended on a log.
MaxPending == 2

\* log l: log.append(data, pointerCount) runs up to its first await (lines
\* 310-327): the clock is advanced, the next pointers are chosen and
\* Entry.create is called.  The entry has no hash before it is stored.
BeginAppend(l, data, pointerCount) ==
  LET ticked == [logs[l] EXCEPT !.clock = appendClock(logs[l])]
      nexts == appendNexts(ticked, pointerCount)
      entry == EntryCreate(store, ticked.identity, ticked.id, data, nexts,
                           ticked.clock)
      creating == UNION {{p \in pending[k] : p.stage = "create"} : k \in Logs}
  IN /\ Cardinality(pending[l]) < MaxPending
     /\ Len(store) + Cardinality(creating) < MaxEntries
     /\ logs' = [logs EXCEPT ![l] = ticked]
     /\ pending' = [pending EXCEPT
                      ![l] = @ \cup {[stage |-> "create",
                                      entry |-> [entry EXCEPT !.hash = 0]]}]
     /\ lastOp' = "begin"
     /\ UNCHANGED <<store, appended, faults>>

\* log l: Entry.create resolves for the suspended call p (line 320): the entry
\* is stored and hashed, and canAppend is called (line 329).
CreateDone(l, p) ==
  LET e == p.entry
      entry == EntryCreate(store, e.identity, e.id, e.payload, e.next, e.clock)
  IN /\ p \in pending[l]
     /\ p.stage = "create"
     /\ store' = Put(store, ContentOf(entry))
     /\ pending' = [pending EXCEPT
                      ![l] = (@ \ {p}) \cup {[stage |-> "canAppend",
                                              entry |-> entry]}]
     /\ lastOp' = "created"
     /\ UNCHANGED <<logs, appended, faults>>

\* log l: canAppend resolves for the suspended call p, and the call runs to
\* its end (lines 329-340): it throws, or the entry is put into the indices
\* of the log as it is now.
CanAppendDone(l, p) ==
  /\ p \in pending[l]
  /\ p.stage = "canAppend"
  /\ pending' = [pending EXCEPT ![l] = @ \ {p}]
  /\ IF canAppend(logs[l].access, p.entry)
     THEN /\ logs' = [logs EXCEPT ![l] = appendCommit(logs[l], p.entry)]
          /\ appended' = [appended EXCEPT ![l] = Max(@, p.entry.clock.time)]
          /\ lastOp' = "append"
     ELSE /\ lastOp' = "appendFailed"
          /\ UNCHANGED <<logs, appended>>
  /\ UNCHANGED <<store, faults>>

\* The suspended calls a step may resume.
Suspended == UNION {pending[l] : l \in Logs}

\* Two replicas; appends that suspend at their awaits, and unbounded joins that
\* run while appends are suspended.
NextReentrant ==
  \/ \E l \in Pair, data \in Payloads, pc \in PointerCounts :
       BeginAppend(l, data, pc)
  \/ \E l \in Pair, p \in Suspended : CreateDone(l, p)
  \/ \E l \in Pair, p \in Suspended : CanAppendDone(l, p)
  \/ \E l \in Pair, o \in Pair, sortById \in BOOLEAN : DoJoin(l, o, -1, sortById)

SpecReentrant == Init /\ [][NextReentrant]_vars

\* --------------------------------------------- join, one step at a time
\* log l: log.join(logs[o], size) runs up to its first await (lines 357-380):
\* the difference is computed from the two logs as they are now, and the
\* checks of its entries are started.
BeginJoin(l, o, size, sortById) ==
  /\ l # o
  /\ logs[l].id = logs[o].id
  /\ Cardinality(pending[l]) < MaxPending
  /\ pending' = [pending EXCEPT
                   ![l] = @ \cup {[stage |-> "join", other |-> o, size |-> size,
                                   sortById |-> sortById,
                                   newItems |-> difference(logs[o], logs[l])]}]
  /\ lastOp' = "beginJoin"
  /\ UNCHANGED <<store, logs, appended, faults>>

\* log l: the checks of the suspended join p resolve (lines 380-381), and the
\* call runs to its end (lines 384-417): it throws, or the difference computed
\* at the start is put into the log as it is now, with the heads the other log
\* has now.
JoinDone(l, p) ==
  /\ p \in pending[l]
  /\ p.stage = "join"
  /\ pending' = [pending EXCEPT ![l] = @ \ {p}]
  /\ IF joinGates(logs[l], p.newItems)
     THEN /\ logs' = [logs EXCEPT ![l] =
                        joinClock(joinSlice(joinHeads(joinIntegrate(logs[l],
                                                                    p.newItems),
                                                      logs[p.other], p.newItems,
                                                      p.sortById),
                                            p.size, p.sortById))]
          /\ lastOp' = "join"
     ELSE /\ lastOp' = "joinFailed"
          /\ UNCHANGED logs
  /\ UNCHANGED <<store, appended, faults>>

\* Replica 3 is a second Log instance opened with the identity of replica 1.
InitInterleaved ==
  /\ store = <<>>
  /\ logs = [l \in Logs |->
               IF l = 3
               THEN constructor(AccessOf(3), IdentityOf(1), IdOf(3), <<>>, 0, FALSE)
               ELSE NewLog(l)]
  /\ appended = [l \in Logs |-> 0]
  /\ faults = 0
  /\ lastOp = "new"
  /\ pending = [l \in Logs |-> {}]

\* The two instances that share an identity.
Twins == {1, 3}

\* The two instances of one identity; appends and unbounded joins that suspend
\* at their awaits and resume in any order.
NextInterleaved ==
  \/ \E l \in Twins, data \in Payloads, pc \in PointerCounts :
       BeginAppend(l, data, pc)
  \/ \E l \in Twins, p \in Suspended : CreateDone(l, p)
  \/ \E l \in Twins, p \in Suspended : CanAppendDone(l, p)
  \/ \E l \in Twins, o \in Twins : BeginJoin(l, o, -1, FALSE)
  \/ \E l \in Twins, p \in Suspended : JoinDone(l, p)

SpecInterleaved == InitInterleaved /\ [][NextInterleaved]_vars

\* ------------------------------------------------------------- properties
\* The hashes of the entries a log holds as heads.
HeadHashes(log) == {e.hash : e \in Range(ObjectValues(log.headsIndex))}

\* Two logs hold the same entries, the same heads and the same values.
Converged(a, b) ==
  /\ DOMAIN a.entryIndex = DOMAIN b.entryIndex
  /\ HeadHashes(a) = HeadHashes(b)
  /\ values(a) = values(b)

\* C1: two logs with the same id, built by appends and unbounded joins, hold
\* after A.join(B) and B.join(A) (both accepted) the same set of entry hashes,
\* the same set of heads and the same values sequence.
C1_Convergence ==
  \A a \in Logs, b \in Logs, s1 \in BOOLEAN, s2 \in BOOLEAN :
    a # b =>
      LET ra == join(logs[a], logs[b], -1, s1)
          rb == join(logs[b], ra.log, -1, s2)
      IN (ra.ok /\ rb.ok) => Converged(ra.log, rb.log)

\* C1's case: two logs that each hold an entry the other lacks join both ways
\* and agree on three entries or more.
C1_Witness ==
  \E a \in Logs, b \in Logs :
    LET ra == join(logs[a], logs[b], -1, FALSE)
        rb == join(logs[b], ra.log, -1, FALSE)
    IN /\ a # b
       /\ DOMAIN logs[a].entryIndex \ DOMAIN logs[b].entryIndex # {}
       /\ DOMAIN logs[b].entryIndex \ DOMAIN logs[a].entryIndex # {}
       /\ ra.ok /\ rb.ok
       /\ Converged(ra.log, rb.log)
       /\ Cardinality(DOMAIN ra.log.entryIndex) >= 3

C8_ClockCoversHeads ==
  \A l \in Logs :
    \A e \in Range(ObjectValues(logs[l].headsIndex)) :
      logs[l].clock.time >= e.clock.time

\* C8's case: a join has raised the clock of a log to the time of a head that
\* is later than anything the log appended itself.
C8_Witness ==
  /\ lastOp = "join"
  /\ \E l \in Pair :
       /\ logs[l].clock.time >= 2
       /\ appended[l] < logs[l].clock.time
       /\ \E e \in Range(ObjectValues(logs[l].headsIndex)) :
            e.clock.time = logs[l].clock.time

\* The entries log l gained in the step.
Gained(l) ==
  {logs'[l].entryIndex[h] :
     h \in DOMAIN logs'[l].entryIndex \ DOMAIN logs[l].entryIndex}

\* The step is a successful append of log l.
AppendedBy(l) == lastOp' = "append" /\ logs'[l] # logs[l]

\* C6: after a successful append the log has exactly one head, the entry just
\* created, and every entry that was a head before is listed in its next.
C6_AppendSingleHead ==
  [][\A l \in Pair :
       AppendedBy(l) =>
         /\ Cardinality(Gained(l)) = 1
         /\ \A new \in Gained(l) :
              /\ ObjectValues(logs'[l].headsIndex) = <<new>>
              /\ \A e \in Range(ObjectValues(logs[l].headsIndex)) :
                   e.hash \in new.next]_vars

\* C6's case: an append to a log that had two heads.
C6_Witness ==
  /\ lastOp = "append"
  /\ \E l \in Pair :
       \E new \in Range(ObjectValues(logs[l].headsIndex)) :
         /\ new.clock.time = appended[l]
         /\ new.identity = IdentityOf(l)
         /\ \E h1 \in new.next, h2 \in new.next :
              /\ h1 > 0 /\ h2 > 0 /\ h1 # h2
              /\ has(logs[l], h1) /\ has(logs[l], h2)
              /\ h1 \notin logs[l].entryIndex[h2].next
              /\ h2 \notin logs[l].entryIndex[h1].next

\* C7: the clock time of a log never decreases, and a successful append
\* creates an entry whose clock time is greater than the time of every head
\* the log had and than the time of every entry the log appended before.
C7_ClockMonotonic ==
  [][\A l \in Logs :
       /\ logs'[l].clock.time >= logs[l].clock.time
       /\ AppendedBy(l) =>
            /\ Gained(l) # {}
            /\ \A new \in Gained(l) :
                 /\ new.clock.time > appended[l]
                 /\ \A e \in Range(ObjectValues(logs[l].headsIndex)) :
                      new.clock.time > e.clock.time]_vars

\* C7's case: a log has appended an entry on top of an entry of another
\* writer that a join brought.
C7_Witness ==
  /\ lastOp = "append"
  /\ \E l \in Pair :
       \E new \in Range(ObjectValues(logs[l].headsIndex)) :
         /\ new.clock.time = appended[l]
         /\ new.clock.time >= 2
         /\ \E h \in new.next :
              /\ has(logs[l], h)
              /\ logs[l].entryIndex[h].identity # IdentityOf(l)
              /\ logs[l].entryIndex[h].clock.time = new.clock.time - 1

\* C9: a failed append (canAppend returns false, or the entry cannot be
\* created) leaves entryIndex, headsIndex, nextsIndex, length and clock of
\* the log as they were.
C9_FailedAppendUnchanged ==
  [][lastOp' = "appendFailed" => logs' = logs]_vars

\* An entry passes both gates of log this.
Passes(this, entry) == canAppend(this.access, entry) /\ Verify(entry)

\* C10: a join whose difference holds an entry that is denied or whose
\* signature does not verify throws and leaves the log as it was, and a join
\* that integrates entries is one whose difference passed both gates.
C10_JoinAllOrNothing ==
  [][/\ lastOp' = "joinFailed" => logs' = logs
     /\ \A l \in Pair, o \in Pair, size \in Sizes, sortById \in BOOLEAN :
          LET newItems == difference(logs[o], logs[l])
          IN (l # o /\ \E i \in DOMAIN newItems : ~Passes(logs[l], newItems[i]))
               => join(logs[l], logs[o], size, sortById)
                    = [log |-> logs[l], ok |-> FALSE]
     /\ lastOp' = "join" =>
          \E l \in Pair, o \in Pair, size \in Sizes, sortById \in BOOLEAN :
            LET newItems == difference(logs[o], logs[l])
            IN /\ l # o
               /\ \A i \in DOMAIN newItems : Passes(logs[l], newItems[i])
               /\ logs' = [logs EXCEPT
                             ![l] = join(logs[l], logs[o], size, sortById).log]]_vars

\* C10's case: a join has just thrown on a difference that holds an entry
\* that passes both gates and an entry that does not.
C10_Witness ==
  /\ lastOp = "joinFailed"
  /\ \E l \in Pair, o \in Pair :
       LET newItems == difference(logs[o], logs[l])
       IN /\ l # o
          /\ \E i \in DOMAIN newItems : Passes(logs[l], newItems[i])
          /\ \E i \in DOMAIN newItems : ~Passes(logs[l], newItems[i])

\* The hashes of the entries of a log that no entry of the log lists in next.
Unreferenced(log) ==
  {h \in DOMAIN log.entryIndex :
     \A k \in DOMAIN log.entryIndex : h \notin log.entryIndex[k].next}

\* C2: after any sequence of appends and joins, bounded or not, an entry of
\* entryIndex is a head iff no entry of entryIndex lists its hash in next.
C2_HeadsCorrect ==
  \A l \in Logs : HeadHashes(logs[l]) = Unreferenced(logs[l])

\* Every entry a log holds carries a valid signature.
AllValid(log) ==
  /\ \A h \in DOMAIN log.entryIndex : Verify(log.entryIndex[h])
  /\ \A e \in Range(ObjectValues(log.headsIndex)) : Verify(e)

\* C4: for logs L, A and B with valid entries that L accepts, joining A then B
\* into L gives the same entries and the same heads as joining B then A.
C4_JoinCommutative ==
  \A L \in Logs, A \in Logs, B \in Logs :
    (L # A /\ L # B /\ A # B
     /\ AllValid(logs[L]) /\ AllValid(logs[A]) /\ AllValid(logs[B])) =>
      LET a == join(logs[L], logs[A], -1, FALSE)
          ab == join(a.log, logs[B], -1, FALSE)
          b == join(logs[L], logs[B], -1, FALSE)
          ba == join(b.log, logs[A], -1, FALSE)
      IN (a.ok /\ ab.ok /\ b.ok /\ ba.ok) =>
           /\ DOMAIN ab.log.entryIndex = DOMAIN ba.log.entryIndex
           /\ HeadHashes(ab.log) = HeadHashes(ba.log)

\* A log like log whose id is id; with entries, its entries carry that id too.
WithId(log, id, entries) ==
  LET relabel(e) == IF entries THEN [e EXCEPT !.id = id] ELSE e
  IN [log EXCEPT !.id = id,
                 !.entryIndex = [k \in DOMAIN @ |-> relabel(@[k])],
                 !.headsIndex = [k \in DOMAIN @ |-> relabel(@[k])]]

\* The sizes a caller may pass to join.
AnySize == Sizes \cup {0}

\* C11: joining a log whose id differs returns without an error and leaves
\* entryIndex, headsIndex, nextsIndex, length and clock as they were, whatever
\* the other log holds and whatever size is given.
C11_IdMismatchNoOp ==
  \A l \in Pair, o \in Pair, size \in AnySize, entries \in BOOLEAN,
     sortById \in BOOLEAN :
    l # o =>
      join(logs[l], WithId(logs[o], "Y", entries), size, sortById)
        = [log |-> logs[l], ok |-> TRUE]

\* C11's case: the other log holds entries this log lacks, one of them not
\* acceptable to this log, and this log holds more entries than the size
\* given; the join with the other id leaves this log as it is.
C11_Witness ==
  \E l \in Pair, o \in Pair :
    /\ l # o
    /\ logs[l].length >= 2
    /\ \E h \in DOMAIN logs[o].entryIndex \ DOMAIN logs[l].entryIndex :
         ~Passes(logs[l], logs[o].entryIndex[h])
    /\ join(logs[l], WithId(logs[o], "Y", TRUE), 1, FALSE)
         = [log |-> logs[l], ok |-> TRUE]

\* The hashes of the entries of a sequence.
Hashes(entries) == {entries[i].hash : i \in DOMAIN entries}

\* The last n entries of a sequence, all of them when it has fewer.
Last(entries, n) ==
  SubSeq(entries, Max(Len(entries) - n, 0) + 1, Len(entries))

\* C12: for every size >= 0, 0 included, after join(other, size) entryIndex
\* holds exactly the last size entries of the merged values (all of them when
\* there are fewer), length is the smaller of size and the number of merged
\* entries, and the heads are findHeads of the retained entries.
C12_BoundedJoin ==
  \A l \in Pair, o \in Pair, size \in 0..MaxSize, sortById \in BOOLEAN :
    l # o =>
      LET merged == join(logs[l], logs[o], -1, sortById)
          bounded == join(logs[l], logs[o], size, sortById)
          retained == Last(values(merged.log), size)
      IN (merged.ok /\ bounded.ok) =>
           /\ DOMAIN bounded.log.entryIndex = Hashes(retained)
           /\ bounded.log.length = Len(retained)
           /\ HeadHashes(bounded.log) = Hashes(findHeads(retained, sortById))

\* The hashes of the values of a log, in order.
ValueHashes(log) == [i \in DOMAIN values(log) |-> values(log)[i].hash]

\* C13: two logs reached by appends and joins, bounded or not, whose
\* entryIndex hold the same entries produce the same values sequence.
C13_ValuesDeterministic ==
  \A a \in Logs, b \in Logs :
    DOMAIN logs[a].entryIndex = DOMAIN logs[b].entryIndex
      => ValueHashes(logs[a]) = ValueHashes(logs[b])

\* C14: append and the unbounded join never remove an entry from entryIndex;
\* a step after which an entry is absent is a join with a size >= 0.
C14_GrowOnly ==
  [][\A l \in Pair :
       LET before == DOMAIN logs[l].entryIndex
           after == DOMAIN logs'[l].entryIndex
       IN /\ lastOp' # "join" => before \subseteq after
          /\ \A o \in Pair, sortById \in BOOLEAN :
               l # o => before \subseteq
                          DOMAIN join(logs[l], logs[o], -1, sortById).log.entryIndex
          /\ ~(before \subseteq after) =>
               \E o \in Pair, size \in Sizes \ {-1}, sortById \in BOOLEAN :
                 /\ l # o
                 /\ logs'[l] = join(logs[l], logs[o], size, sortById).log]_vars

\* C14's case: a join has left a log without an entry the log appended itself,
\* while a successor of that entry is still there.
C14_Witness ==
  /\ lastOp = "join"
  /\ \E l \in Pair :
       \E h \in DOMAIN logs[l].nextsIndex \ DOMAIN logs[l].entryIndex :
         /\ h > 0
         /\ store[h].identity = IdentityOf(l)
         /\ has(logs[l], logs[l].nextsIndex[h])

\* C15: after any sequence of appends and joins, bounded or not, values lists
\* every entry of entryIndex exactly once (as many as length says) and
\* ascends strictly in the LastWriteWins order.
C15_ValuesSortedComplete ==
  \A l \in Logs :
    LET v == values(logs[l])
    IN /\ Len(v) = logs[l].length
       /\ Hashes(v) = DOMAIN logs[l].entryIndex
       /\ \A i \in DOMAIN v, j \in DOMAIN v :
            i < j => LastWriteWins(v[i], v[j]) < 0

\* The hashes of the entries of a log reachable from the hashes in from by
\* following next.
RECURSIVE Reachable(_, _)
Reachable(log, from) ==
  LET more == UNION {log.entryIndex[h].next : h \in from} \cap DOMAIN log.entryIndex
  IN IF more \subseteq from THEN from ELSE Reachable(log, from \cup more)

\* The entries of a log with the hashes in roots, as a list.
RootEntries(log, roots) ==
  [i \in 1..Cardinality(roots) |-> log.entryIndex[Ascending(roots)[i]]]

\* C16: for any root entries taken from entryIndex, also when one root is an
\* ancestor of another, and any amount, the result of traverse holds as many
\* entries as amount asks for, or all the reachable ones when there are fewer
\* or when amount is -1.
C16_TraverseBounded ==
  \A l \in Pair :
    \A roots \in SUBSET DOMAIN logs[l].entryIndex, amount \in (-1)..MaxEntries :
      LET result == traverse(logs[l], RootEntries(logs[l], roots), amount)
          reachable == Cardinality(Reachable(logs[l], roots))
      IN /\ Hashes(result) \subseteq Reachable(logs[l], roots)
         /\ Len(result) = IF amount = -1 \/ amount > reachable THEN reachable
                          ELSE amount

\* C17: Log.difference(A, B) returns exactly the entries of A that are
\* reachable from A's heads and whose hash is not in B's entryIndex, also
\* when B lacks predecessors of entries it holds.
C17_DifferenceExact ==
  \A a \in Logs, b \in Logs :
    a # b =>
      Hashes(difference(logs[a], logs[b]))
        = Reachable(logs[a], HeadHashes(logs[a]) \cap DOMAIN logs[a].entryIndex)
            \ DOMAIN logs[b].entryIndex

\* C18: for every entry E of entryIndex that nextsIndex has a successor for,
\* that successor is in entryIndex and lists E.hash in its next, so that no
\* entry is kept out of the heads by a successor that is not in the log.
C18_NextsIndexConsistent ==
  \A l \in Logs :
    \A h \in DOMAIN logs[l].entryIndex \cap DOMAIN logs[l].nextsIndex :
      /\ has(logs[l], logs[l].nextsIndex[h])
      /\ h \in logs[l].entryIndex[logs[l].nextsIndex[h]].next

\* The heads of a log are the entries of entryIndex that no entry of
\* entryIndex references.
HeadsAreFindHeads(log) == HeadHashes(log) = Unreferenced(log)

\* The step ends an append of log l that chose its next pointers before the
\* heads of the log became what they are now.
OverlappedCommit(l) ==
  /\ lastOp' = "append"
  /\ \E p \in pending[l] \ pending'[l] :
       ~(DOMAIN logs[l].headsIndex \subseteq p.entry.next)

\* C19: the log is not safe against calls that interleave.  With appends and
\* unbounded joins, the heads stop being findHeads(entryIndex) only at the
\* end of an append that was suspended while another append or a join changed
\* the heads of the same log; C19_Witness is the state that such a step reaches.
C19_NotReentrant ==
  [][\A l \in Pair :
       (HeadsAreFindHeads(logs[l]) /\ ~HeadsAreFindHeads(logs'[l]))
         => OverlappedCommit(l)]_vars

\* C19's case: no call is suspended any more, and an entry of entryIndex is
\* neither a head nor referenced by any entry, and is missing from values.
C19_Witness ==
  \E l \in Pair :
    /\ pending[l] = {}
    /\ \E h \in DOMAIN logs[l].entryIndex :
         /\ h \notin HeadHashes(logs[l])
         /\ h \in Unreferenced(logs[l])
         /\ h \notin Hashes(values(logs[l]))

\* The entries of a log whose hashes are in keep, in the order of values.
Selected(log, keep) ==
  LET kept(e) == e.hash \in keep
  IN SelectSeq(values(log), kept)

\* C20: Log.findTailHashes(entries) returns each hash that an input entry
\* lists in next and that is not the hash of an input entry exactly once,
\* also when several input entries reference it, and no hash of an input
\* entry.
C20_TailHashesOnce ==
  \A l \in Logs :
    \A keep \in SUBSET DOMAIN logs[l].entryIndex :
      LET entries == Selected(logs[l], keep)
          tailHashes == findTailHashes(entries)
          dangling == UNION {entries[i].next : i \in DOMAIN entries}
                        \ Hashes(entries)
      IN /\ Range(tailHashes) = dangling
         /\ Len(tailHashes) = Cardinality(dangling)

\* The position of hash h in a sequence of entries, 0 when it is not there.
PositionOf(entries, h) ==
  IF h \in Hashes(entries) THEN CHOOSE i \in DOMAIN entries : entries[i].hash = h
  ELSE 0

\* C21: after any sequence of appends and unbounded joins, every entry that
\* an entry E of values lists in next and that entryIndex holds appears in
\* values before E, and every stored entry has a clock time greater than the
\* clock time of each entry it lists in next.
C21_CausalOrder ==
  /\ \A l \in Logs :
       LET v == values(logs[l])
       IN \A i \in DOMAIN v :
            \A p \in v[i].next :
              has(logs[l], p) =>
                /\ PositionOf(v, p) > 0
                /\ PositionOf(v, p) < i
  /\ \A h \in DOMAIN store :
       \A p \in store[h].next :
         /\ p \in DOMAIN store
         /\ store[p].clock.time < store[h].clock.time

\* C21's case: a log holds two entries of different writers that do not
\* reference each other, and an entry that lists both in next and comes after
\* both in values.
C21_Witness ==
  \E l \in Logs :
    LET v == values(logs[l])
    IN \E i \in DOMAIN v, j \in DOMAIN v, k \in DOMAIN v :
         /\ i < j /\ j < k
         /\ v[i].identity # v[j].identity
         /\ v[i].hash \notin v[j].next
         /\ {v[i].hash, v[j].hash} \subseteq v[k].next

\* C22: under any interleaving of appends and joins of one log at their
\* awaits, two joins with overlapping differences included, once no call of
\* a log is suspended its length equals the number of hashes in its
\* entryIndex.
C22_LengthUnderInterleaving ==
  \A l \in Logs :
    pending[l] = {} => logs[l].length = Cardinality(DOMAIN logs[l].entryIndex)

\* C23: starting from empty logs, with appends and joins, no log ever holds in
\* entryIndex an entry that its access controller denies: append and join
\* both ask canAppend before they insert.
C23_AccessGating ==
  \A l \in Logs :
    \A h \in DOMAIN logs[l].entryIndex :
      canAppend(logs[l].access, logs[l].entryIndex[h])

====
